---------------------------- MODULE Spec2Model ----------------------------
(***************************************************************************)
(* Classroom seating allocation: the auto-assign request                   *)
(* (src/app/api/hostel/list/route.ts, second handler) and the manual       *)
(* assign request (src/app/api/room-allocation/create/route.ts, third      *)
(* handler), over the RoomStudentAssignment rows of one RoomAllocation.    *)
(***************************************************************************)
EXTENDS Integers, Sequences, FiniteSets, TLC

VARIABLES
    room,     \* the RoomAllocation row: rows, columns, studentsPerBench
    store,    \* the persisted RoomStudentAssignment rows of that room
    before,   \* the assignments the request in flight loaded ({} between requests)
    pc,       \* per request slot: where the handler stands between awaits
    kind,     \* per request slot: "auto" or "manual" ("none" when idle)
    req,      \* per request slot: the request body (studentIds or assignments)
    calls,    \* per request slot: the store writes made so far, with their counts
    ids,      \* per request slot: the student ids handed to deleteMany
    plan,     \* per request slot: the rows handed to createMany
    resp,     \* per request slot: the response of the finished request
    index,    \* a positionMap under test (predicate specification)
    probe,    \* the last availability check made on index
    cache,    \* the value redis holds under room-allocations:<schoolId>
    seen,     \* per request slot: the rows a list request read from the store
    elsewhere,    \* the RoomStudentAssignment rows of the other RoomAllocations
    cotBooking,   \* paymentStatus of the CotBooking row under verification
    busBookings   \* the BusBooking rows of one bus

vars == <<room, store, before, pc, kind, req, calls, ids, plan, resp, index, probe,
          cache, seen, elsewhere, cotBooking, busBookings>>

bookings == <<cotBooking, busBookings>>

-----------------------------------------------------------------------------
(* Bounds of the model *)

MaxRows == 2
MaxCols == 3
MaxSeats == 4
MaxOccupants == 2
MaxIds == 3
MaxBatch == 2

(* Room capacity ceiling of the create request *)
MaxCapacity == 200

-----------------------------------------------------------------------------
(* Students of the school and their classes (student.classId, string | null) *)

NULL == "null"

ClassIds == {"X", "Y"}

Students == {"s1", "s2", "s3"}

\* an id that resolves to no student of the school
UnknownId == "s0"

ClassOf(s) == IF s \in {"s1", "s2"} THEN "X" ELSE "Y"

\* the roomAllocationId the requests name, and the rows the table holds for
\* another RoomAllocation (a student may sit in several rooms)
RoomId == "r1"

OtherRoomRows ==
    {[roomAllocationId |-> "r2", studentId |-> "s1", row |-> 1, column |-> 1,
      benchPosition |-> 1]}

\* redis: no value under the key, or the value last set
Miss == [hit |-> FALSE, value |-> {}]

Hit(value) == [hit |-> TRUE, value |-> value]

-----------------------------------------------------------------------------
(* Grid *)

Capacity(r) == r.rows * r.columns * r.studentsPerBench

Configs ==
    {r \in [rows : 1..MaxRows, columns : 1..MaxCols, studentsPerBench : {1, 2}] :
        Capacity(r) <= MaxCapacity}

InRangeCoords(r) == (1..r.rows) \X (1..r.columns) \X (1..r.studentsPerBench)

\* `${row}-${column}-${benchPosition}`: decimal fields joined by "-"; the
\* fields are never negative here, so distinct triples give distinct keys
Key(row, column, benchPosition) == <<row, column, benchPosition>>

-----------------------------------------------------------------------------
(* Auto-assign: the availability predicate *)

\* (mutant) the test without its last conjunct
SameClassNoNullGuard(pm, k, studentClassId) ==
    k \in DOMAIN pm /\ pm[k].classId = studentClassId

\* adj && adj.classId === studentClassId && adj.classId
SameClass(pm, k, studentClassId) ==
    k \in DOMAIN pm /\ pm[k].classId = studentClassId /\ pm[k].classId # NULL

AdjacentPositions(row, column) ==
    << Key(row, column - 1, 1), Key(row, column + 1, 1),
       Key(row - 1, column, 1), Key(row + 1, column, 1) >>

\* (mutant) only the first seat of the neighbouring bench is looked at
CheckSideFirstSeat(pm, row, checkCol, studentClassId) ==
    SameClass(pm, Key(row, checkCol, 1), studentClassId)

CheckSide(pm, row, checkCol, studentClassId) ==
    \/ SameClass(pm, Key(row, checkCol, 1), studentClassId)
    \/ SameClass(pm, Key(row, checkCol, 2), studentClassId)

\* (mutant) the neighbour on the far side (back, right) is not looked at
IsPositionAvailableLeftOnly(r, pm, row, column, benchPosition, studentClassId) ==
    IF Key(row, column, benchPosition) \in DOMAIN pm THEN FALSE
    ELSE IF r.studentsPerBench = 1
    THEN \A i \in 1..3 :
            ~SameClass(pm, AdjacentPositions(row, column)[i], studentClassId)
    ELSE LET sameBenchPos == IF benchPosition = 1 THEN 2 ELSE 1
         IN  /\ ~SameClass(pm, Key(row, column, sameBenchPos), studentClassId)
             /\ ~(column > 1 /\ CheckSide(pm, row, column - 1, studentClassId))

\* (mutant) the other seat of the bench is not looked at
IsPositionAvailableNoSameBench(r, pm, row, column, benchPosition, studentClassId) ==
    IF Key(row, column, benchPosition) \in DOMAIN pm THEN FALSE
    ELSE IF r.studentsPerBench = 1
    THEN \A i \in 1..4 :
            ~SameClass(pm, AdjacentPositions(row, column)[i], studentClassId)
    ELSE /\ ~(column > 1 /\ CheckSide(pm, row, column - 1, studentClassId))
         /\ ~(column < r.columns /\ CheckSide(pm, row, column + 1, studentClassId))

IsPositionAvailable(r, pm, row, column, benchPosition, studentClassId) ==
    IF Key(row, column, benchPosition) \in DOMAIN pm THEN FALSE
    ELSE IF r.studentsPerBench = 1
    THEN \A i \in 1..4 :
            ~SameClass(pm, AdjacentPositions(row, column)[i], studentClassId)
    ELSE LET sameBenchPos == IF benchPosition = 1 THEN 2 ELSE 1
         IN  /\ ~SameClass(pm, Key(row, column, sameBenchPos), studentClassId)
             /\ ~(column > 1 /\ CheckSide(pm, row, column - 1, studentClassId))
             /\ ~(column < r.columns /\ CheckSide(pm, row, column + 1, studentClassId))

-----------------------------------------------------------------------------
(* Manual assign: the constraint check of one tuple *)

ManualSameClass(pm, k, classId) ==
    k \in DOMAIN pm /\ pm[k].classId = classId /\ pm[k].classId # NULL

ManualAdjacentPositions(row, column) ==
    << Key(row, column - 1, 1), Key(row, column + 1, 1),
       Key(row - 1, column, 1), Key(row + 1, column, 1) >>

ManualCheckSide(pm, checkRow, checkCol, classId) ==
    \/ ManualSameClass(pm, Key(checkRow, checkCol, 1), classId)
    \/ ManualSameClass(pm, Key(checkRow, checkCol, 2), classId)

\* (mutant) the constraint loop lets every tuple pass
ManualViolationNone(r, pm, row, column, benchPos, classId) == "none"

\* "none" when the tuple passes, else which of the four returns rejected it
ManualViolation(r, pm, row, column, benchPos, classId) ==
    IF r.studentsPerBench = 1
    THEN IF \E i \in 1..4 :
              ManualSameClass(pm, ManualAdjacentPositions(row, column)[i], classId)
         THEN "adjacent" ELSE "none"
    ELSE LET sameBenchPos == IF benchPos = 1 THEN 2 ELSE 1
         IN  IF ManualSameClass(pm, Key(row, column, sameBenchPos), classId)
             THEN "sameBench"
             ELSE IF column > 1 /\ ManualCheckSide(pm, row, column - 1, classId)
             THEN "left"
             ELSE IF column < r.columns /\ ManualCheckSide(pm, row, column + 1, classId)
             THEN "right"
             ELSE "none"

-----------------------------------------------------------------------------
(* The position map both handlers build from the loaded assignments *)

RowKey(a) == Key(a.row, a.column, a.benchPosition)

Occupant(s) == [studentId |-> s, classId |-> ClassOf(s)]

\* for (const existing of roomAllocation.studentAssignments) positionMap.set(key, ..):
\* the rows come back in no stated order, so when two rows share a key either
\* may be the one the map ends up holding
PositionMaps(rows) ==
    LET keys == {RowKey(a) : a \in rows}
    IN  {pm \in [keys -> {Occupant(a.studentId) : a \in rows}] :
            \A k \in keys :
                \E a \in rows : RowKey(a) = k /\ pm[k] = Occupant(a.studentId)}

\* (mutant) the position is not marked as taken
MapSetNoOp(pm, k, v) == pm

\* positionMap.set(key, {studentId, classId})
MapSet(pm, k, v) == [x \in DOMAIN pm \cup {k} |-> IF x = k THEN v ELSE pm[x]]

SeqToSet(q) == {q[i] : i \in 1..Len(q)}

-----------------------------------------------------------------------------
(* Auto-assign: the solver *)

\* entries of the requested students who hold a seat are deleted from the map
RemoveRequested(pm, rows, uniqueStudentIds) ==
    LET existingStudentIds == {a.studentId : a \in rows}
        gone == existingStudentIds \cap uniqueStudentIds
    IN  [k \in {x \in DOMAIN pm : pm[x].studentId \notin gone} |-> pm[k]]

\* the classes of the Map studentsByClass in insertion order
RECURSIVE ClassOrder(_)
ClassOrder(students) ==
    IF students = <<>> THEN <<>>
    ELSE LET front == ClassOrder(SubSeq(students, 1, Len(students) - 1))
             c == students[Len(students)].classId
         IN  IF c \in SeqToSet(front) THEN front ELSE Append(front, c)

HasClass(s, c) == s.classId = c

\* students in the order the two nested loops visit them
RECURSIVE GroupsFrom(_, _, _)
GroupsFrom(students, order, i) ==
    IF i > Len(order) THEN <<>>
    ELSE LET c == order[i]
         IN  SelectSeq(students, LAMBDA s : HasClass(s, c))
                 \o GroupsFrom(students, order, i + 1)

StudentsByClass(students) == GroupsFrom(students, ClassOrder(students), 1)

\* the n-th position of the scan: row outer, column middle, bench inner
ScanCoord(r, n) ==
    LET perRow == r.columns * r.studentsPerBench
    IN  << ((n - 1) \div perRow) + 1,
           (((n - 1) % perRow) \div r.studentsPerBench) + 1,
           ((n - 1) % r.studentsPerBench) + 1 >>

\* (mutant) the scan keeps the last available position
FirstAvailableLast(r, pm, classId) ==
    LET ok == {n \in 1..Capacity(r) :
                 IsPositionAvailable(r, pm, ScanCoord(r, n)[1], ScanCoord(r, n)[2],
                                     ScanCoord(r, n)[3], classId)}
    IN  IF ok = {} THEN 0 ELSE CHOOSE n \in ok : \A m \in ok : n >= m

\* the scan index of the first available position, 0 when there is none
FirstAvailable(r, pm, classId) ==
    LET ok == {n \in 1..Capacity(r) :
                 IsPositionAvailable(r, pm, ScanCoord(r, n)[1], ScanCoord(r, n)[2],
                                     ScanCoord(r, n)[3], classId)}
    IN  IF ok = {} THEN 0 ELSE CHOOSE n \in ok : \A m \in ok : n <= m

RECURSIVE Solve(_, _, _, _, _, _)
Solve(r, pm, queue, i, assignments, unassignedStudents) ==
    IF i > Len(queue)
    THEN [assignments |-> assignments, unassigned |-> unassignedStudents]
    ELSE LET student == queue[i]
             n == FirstAvailable(r, pm, student.classId)
             c == ScanCoord(r, n)
         IN  IF n = 0
             THEN Solve(r, pm, queue, i + 1, assignments,
                        Append(unassignedStudents, student.id))
             ELSE Solve(r, MapSet(pm, Key(c[1], c[2], c[3]),
                                  [studentId |-> student.id, classId |-> student.classId]),
                        queue, i + 1,
                        Append(assignments,
                               [studentId |-> student.id, row |-> c[1],
                                column |-> c[2], benchPosition |-> c[3]]),
                        unassignedStudents)

\* prisma.student.findMany({ id: { in: studentIds } }): each matching student
\* once, in an order the query does not fix
FoundStudents(idSet) == idSet \cap Students

StudentOrders(found) ==
    {q \in [1..Cardinality(found) -> found] : SeqToSet(q) = found}

StudentRecords(q) == [i \in 1..Len(q) |-> [id |-> q[i], classId |-> ClassOf(q[i])]]

NoResp == [status |-> 0, error |-> "none", assignments |-> <<>>, unassigned |-> <<>>]

Failure(status, error) ==
    [status |-> status, error |-> error, assignments |-> <<>>, unassigned |-> <<>>]

\* (mutant) the unassigned response without the placements of the others
AutoSolvedNoPartial(r, rows, pm, studentIds, order) ==
    LET res == Solve(r, RemoveRequested(pm, rows, SeqToSet(studentIds)),
                     StudentsByClass(StudentRecords(order)), 1, <<>>, <<>>)
    IN  IF Len(res.unassigned) > 0
        THEN [status |-> 400, error |-> "unassigned",
              assignments |-> <<>>, unassigned |-> res.unassigned]
        ELSE [status |-> 200, error |-> "none",
              assignments |-> res.assignments, unassigned |-> <<>>]

\* the solver run on one position map and one order of the loaded students
AutoSolved(r, rows, pm, studentIds, order) ==
    LET res == Solve(r, RemoveRequested(pm, rows, SeqToSet(studentIds)),
                     StudentsByClass(StudentRecords(order)), 1, <<>>, <<>>)
    IN  IF Len(res.unassigned) > 0
        THEN [status |-> 400, error |-> "unassigned",
              assignments |-> res.assignments, unassigned |-> res.unassigned]
        ELSE [status |-> 200, error |-> "none",
              assignments |-> res.assignments, unassigned |-> <<>>]

\* what the auto-assign handler may have decided when it reaches the first
\* write: a failure response, or the assignments to persist
AutoOutcomes(r, rows, studentIds) ==
    IF Len(studentIds) = 0 THEN {Failure(400, "required")}
    ELSE IF Cardinality(FoundStudents(SeqToSet(studentIds))) # Len(studentIds)
    THEN {Failure(400, "notFound")}
    ELSE IF Cardinality(SeqToSet(studentIds)) # Len(studentIds)
    THEN {Failure(400, "duplicate")}
    ELSE {AutoSolved(r, rows, pm, studentIds, order) :
            pm \in PositionMaps(rows),
            order \in StudentOrders(FoundStudents(SeqToSet(studentIds)))}

-----------------------------------------------------------------------------
(* Manual assign: the validator *)

\* benchPosition || 1
BenchOr1(benchPosition) == IF benchPosition = 0 THEN 1 ELSE benchPosition

RECURSIVE ValidateAssignments(_, _, _, _, _)
ValidateAssignments(r, assignments, i, studentIds, positions) ==
    IF i > Len(assignments) THEN "none"
    ELSE LET a == assignments[i]
             benchPos == BenchOr1(a.benchPosition)
             posKey == Key(a.row, a.column, benchPos)
         IN  IF a.studentId \in studentIds THEN "duplicateStudent"
             ELSE IF a.row < 1 \/ a.row > r.rows \/ a.column < 1 \/ a.column > r.columns
             THEN "invalidPosition"
             ELSE IF benchPos < 1 \/ benchPos > r.studentsPerBench
             THEN "invalidBench"
             ELSE IF posKey \in positions THEN "positionTaken"
             ELSE ValidateAssignments(r, assignments, i + 1,
                                      studentIds \cup {a.studentId},
                                      positions \cup {posKey})

RECURSIVE CheckConstraints(_, _, _, _)
CheckConstraints(r, pm, assignments, i) ==
    IF i > Len(assignments) THEN "none"
    ELSE LET a == assignments[i]
             benchPos == BenchOr1(a.benchPosition)
             v == ManualViolation(r, pm, a.row, a.column, benchPos, ClassOf(a.studentId))
         IN  IF v # "none" THEN v
             ELSE CheckConstraints(r,
                      MapSet(pm, Key(a.row, a.column, benchPos), Occupant(a.studentId)),
                      assignments, i + 1)

\* the data handed to createMany
ManualRows(assignments) ==
    [i \in 1..Len(assignments) |->
        [studentId |-> assignments[i].studentId, row |-> assignments[i].row,
         column |-> assignments[i].column,
         benchPosition |-> BenchOr1(assignments[i].benchPosition)]]

\* the constraint loop run on one position map
ManualChecked(r, pm, assignments) ==
    LET v == CheckConstraints(r, pm, assignments, 1)
    IN  IF v # "none" THEN Failure(400, v)
        ELSE [status |-> 200, error |-> "none",
              assignments |-> ManualRows(assignments), unassigned |-> <<>>]

\* (mutant) a student named twice does not end the validation loop
ManualOutcomesDuplicatesPass(r, rows, assignments) ==
    LET structural == ValidateAssignments(r, assignments, 1, {}, {})
        studentIdsArray == {assignments[i].studentId : i \in 1..Len(assignments)}
    IN  IF structural \notin {"none", "duplicateStudent"} THEN {Failure(400, structural)}
        ELSE IF Cardinality(FoundStudents(studentIdsArray)) # Cardinality(studentIdsArray)
        THEN {Failure(400, "notFound")}
        ELSE {ManualChecked(r, pm, assignments) : pm \in PositionMaps(rows)}

\* what the manual-assign handler may have decided when it reaches the first
\* write: a failure response, or the rows to persist
ManualOutcomes(r, rows, assignments) ==
    LET structural == ValidateAssignments(r, assignments, 1, {}, {})
        studentIdsArray == {assignments[i].studentId : i \in 1..Len(assignments)}
    IN  IF structural # "none" THEN {Failure(400, structural)}
        ELSE IF Cardinality(FoundStudents(studentIdsArray)) # Cardinality(studentIdsArray)
        THEN {Failure(400, "notFound")}
        ELSE {ManualChecked(r, pm, assignments) : pm \in PositionMaps(rows)}

-----------------------------------------------------------------------------
(* Requests *)

Procs == {"p1", "p2"}

\* request bodies of the auto-assign request: studentIds
AutoInputs ==
    UNION {[1..n -> Students \cup {UnknownId}] : n \in 0..MaxIds}

\* coordinates a manual tuple may name: every seat of the room, one position
\* past the last row, column and bench position, and bench position 0 (which
\* also stands for an absent benchPosition)
TupleCoords(r) ==
    InRangeCoords(r) \cup
        { <<r.rows + 1, 1, 1>>, <<1, r.columns + 1, 1>>,
          <<1, 1, 0>>, <<1, 1, r.studentsPerBench + 1>> }

Tuple(s, c) == [studentId |-> s, row |-> c[1], column |-> c[2], benchPosition |-> c[3]]

\* the tuples of a batch: any student on any seat of the room, one student on
\* the coordinates outside it, and a student the store does not know
Tuples(r) ==
    {Tuple(s, c) : s \in Students, c \in InRangeCoords(r)}
        \cup {Tuple("s1", c) : c \in TupleCoords(r)}
        \cup {Tuple(UnknownId, <<1, 1, 1>>)}

\* request bodies of the manual-assign request: assignments
ManualInputs(r) == UNION {[1..n -> Tuples(r)] : n \in 0..MaxBatch}

\* the handler leaves with a response, or goes on to the writes
Decide(p, k, body, out) ==
    /\ kind' = [kind EXCEPT ![p] = k]
    /\ req' = [req EXCEPT ![p] = body]
    /\ calls' = [calls EXCEPT ![p] = <<>>]
    /\ IF out.status = 200
       THEN /\ pc' = [pc EXCEPT ![p] = "planned"]
            /\ ids' = [ids EXCEPT ![p] = {out.assignments[i].studentId :
                                             i \in 1..Len(out.assignments)}]
            /\ plan' = [plan EXCEPT ![p] = out.assignments]
            /\ resp' = [resp EXCEPT ![p] = NoResp]
       ELSE /\ pc' = [pc EXCEPT ![p] = "done"]
            /\ ids' = [ids EXCEPT ![p] = {}]
            /\ plan' = [plan EXCEPT ![p] = <<>>]
            /\ resp' = [resp EXCEPT ![p] = out]

\* (mutant) the rows of the requested students are deleted before the solver runs
AutoLoadDeleteFirst(p, bodies) ==
    /\ pc[p] = "idle"
    /\ \E studentIds \in bodies :
       /\ \E out \in AutoOutcomes(room, store, studentIds) :
             Decide(p, "auto", studentIds, out)
       /\ store' = {a \in store : a.studentId \notin SeqToSet(studentIds)}
    /\ before' = store
    /\ UNCHANGED <<room, index, probe, cache, seen, elsewhere, bookings>>

\* auto-assign: findFirst of the room with its assignments, findMany of the
\* students, the checks and the solver, up to the first write
AutoLoad(p, bodies) ==
    /\ pc[p] = "idle"
    /\ \E studentIds \in bodies :
       \E out \in AutoOutcomes(room, store, studentIds) :
          Decide(p, "auto", studentIds, out)
    /\ before' = store
    /\ UNCHANGED <<room, store, index, probe, cache, seen, elsewhere, bookings>>

\* manual assign: findFirst of the room with its assignments, the
\* validation loop, findMany of the students and the constraint loop
ManualLoad(p, bodies) ==
    /\ pc[p] = "idle"
    /\ \E assignments \in bodies :
       \E out \in ManualOutcomes(room, store, assignments) :
          Decide(p, "manual", assignments, out)
    /\ before' = store
    /\ UNCHANGED <<room, store, index, probe, cache, seen, elsewhere, bookings>>

\* the catch block: the store raised
Throw(p) ==
    /\ pc' = [pc EXCEPT ![p] = "done"]
    /\ resp' = [resp EXCEPT ![p] = Failure(500, "store")]
    /\ ids' = [ids EXCEPT ![p] = {}]
    /\ plan' = [plan EXCEPT ![p] = <<>>]
    /\ UNCHANGED <<room, store, before, kind, req, calls, index, probe, cache, seen,
                   elsewhere, bookings>>

\* (mutant) deleteMany removes nothing
DeleteManyNone(p) ==
    /\ calls' = [calls EXCEPT ![p] = Append(@, [op |-> "deleteMany", count |-> 0])]
    /\ pc' = [pc EXCEPT ![p] = "deleted"]
    /\ UNCHANGED <<room, store, before, kind, req, ids, plan, resp, index, probe, cache,
                   seen, elsewhere, bookings>>

\* (mutant) deleteMany without the where clause: every row goes
DeleteManyAll(p) ==
    /\ store' = {}
    /\ elsewhere' = {}
    /\ calls' = [calls EXCEPT ![p] =
                    Append(@, [op |-> "deleteMany", count |-> Cardinality(store)])]
    /\ pc' = [pc EXCEPT ![p] = "deleted"]
    /\ UNCHANGED <<room, before, kind, req, ids, plan, resp, index, probe, cache,
                   seen, bookings>>

\* roomStudentAssignment.deleteMany({ where: { studentId: { in: .. } } })
\* the where clause names the room and the students
DeleteMany(p) ==
    /\ store' = {a \in store : a.studentId \notin ids[p]}
    /\ elsewhere' = {a \in elsewhere :
                        ~(a.roomAllocationId = RoomId /\ a.studentId \in ids[p])}
    /\ calls' = [calls EXCEPT ![p] =
                    Append(@, [op |-> "deleteMany",
                               count |-> Cardinality({a \in store : a.studentId \in ids[p]})])]
    /\ pc' = [pc EXCEPT ![p] = "deleted"]
    /\ UNCHANGED <<room, before, kind, req, ids, plan, resp, index, probe, cache,
                   seen, bookings>>

\* what the RoomStudentAssignment table lets createMany insert: the adapter is a
\* bulk insert by the spec, and a seat held twice shows only on the next read
StoreAccepts(rows, newRows) == TRUE

\* roomStudentAssignment.createMany({ data: .. })
CreateMany(p) ==
    /\ StoreAccepts(store, plan[p])
    /\ store' = store \cup SeqToSet(plan[p])
    /\ calls' = [calls EXCEPT ![p] =
                    Append(@, [op |-> "createMany", count |-> Len(plan[p])])]
    /\ pc' = [pc EXCEPT ![p] = "created"]
    /\ UNCHANGED <<room, before, kind, req, ids, plan, resp, index, probe, cache,
                   seen, elsewhere, bookings>>

AutoDelete(p) ==
    /\ pc[p] = "planned" /\ kind[p] = "auto"
    /\ DeleteMany(p) \/ Throw(p)

AutoCreate(p) ==
    /\ pc[p] = "deleted" /\ kind[p] = "auto"
    /\ IF Len(plan[p]) > 0 THEN CreateMany(p) \/ Throw(p)
       ELSE /\ pc' = [pc EXCEPT ![p] = "created"]
            /\ UNCHANGED <<room, store, before, kind, req, calls, ids, plan, resp,
                           index, probe, cache, seen, elsewhere, bookings>>

ManualDelete(p) ==
    /\ pc[p] = "planned" /\ kind[p] = "manual"
    /\ DeleteMany(p) \/ Throw(p)

ManualCreate(p) ==
    /\ pc[p] = "deleted" /\ kind[p] = "manual"
    /\ CreateMany(p) \/ Throw(p)

\* await redis.del of the cache key resolves, then the 200 response
Finish(p) ==
    /\ pc' = [pc EXCEPT ![p] = "done"]
    /\ calls' = [calls EXCEPT ![p] = Append(@, [op |-> "del", count |-> 1])]
    /\ cache' = Miss
    /\ resp' = [resp EXCEPT ![p] =
                   [status |-> 200, error |-> "none",
                    assignments |-> IF kind[p] = "auto" THEN plan[p] ELSE <<>>,
                    unassigned |-> <<>>]]
    /\ ids' = [ids EXCEPT ![p] = {}]
    /\ plan' = [plan EXCEPT ![p] = <<>>]
    /\ UNCHANGED <<room, store, before, kind, req, index, probe, seen,
                   elsewhere, bookings>>

\* await redis.del rejects: the call stands inside the try block, so the
\* catch block answers
DelThrow(p) ==
    /\ pc' = [pc EXCEPT ![p] = "done"]
    /\ calls' = [calls EXCEPT ![p] = Append(@, [op |-> "delRejected", count |-> 0])]
    /\ resp' = [resp EXCEPT ![p] = Failure(500, "redis")]
    /\ ids' = [ids EXCEPT ![p] = {}]
    /\ plan' = [plan EXCEPT ![p] = <<>>]
    /\ UNCHANGED <<room, store, before, kind, req, index, probe, cache, seen,
                   elsewhere, bookings>>

\* the response is returned and the handler instance ends
Respond(p) ==
    /\ pc[p] = "done"
    /\ pc' = [pc EXCEPT ![p] = "idle"]
    /\ kind' = [kind EXCEPT ![p] = "none"]
    /\ req' = [req EXCEPT ![p] = <<>>]
    /\ calls' = [calls EXCEPT ![p] = <<>>]
    /\ resp' = [resp EXCEPT ![p] = NoResp]
    /\ before' = {}
    /\ seen' = [seen EXCEPT ![p] = {}]
    /\ UNCHANGED <<room, store, ids, plan, index, probe, cache, elsewhere,
                   bookings>>

AutoFinish(p) ==
    /\ pc[p] = "created" /\ kind[p] = "auto"
    /\ Finish(p) \/ DelThrow(p)

ManualFinish(p) ==
    /\ pc[p] = "created" /\ kind[p] = "manual"
    /\ Finish(p) \/ DelThrow(p)

-----------------------------------------------------------------------------
(* Specifications *)

NoProbe == [row |-> 0, column |-> 0, benchPosition |-> 0, classId |-> NULL,
            auto |-> FALSE, manual |-> "none"]

\* the rooms of the request specifications
SmallRooms == {r \in Configs : Capacity(r) <= MaxSeats}

Idle ==
    /\ pc = [p \in Procs |-> "idle"]
    /\ kind = [p \in Procs |-> "none"]
    /\ req = [p \in Procs |-> <<>>]
    /\ calls = [p \in Procs |-> <<>>]
    /\ ids = [p \in Procs |-> {}]
    /\ plan = [p \in Procs |-> <<>>]
    /\ resp = [p \in Procs |-> NoResp]
    /\ seen = [p \in Procs |-> {}]
    /\ cache = Miss
    /\ elsewhere = OtherRoomRows
    /\ cotBooking = "PENDING"
    /\ busBookings = {}

\* a room without assignments
Init ==
    /\ room \in SmallRooms
    /\ store = {}
    /\ before = {}
    /\ Idle
    /\ index = <<>>
    /\ probe = NoProbe

Step(p) ==
    \/ AutoDelete(p)
    \/ AutoCreate(p)
    \/ AutoFinish(p)
    \/ ManualDelete(p)
    \/ ManualCreate(p)
    \/ ManualFinish(p)
    \/ Respond(p)

\* requests executed one at a time
NextSeq ==
    \/ AutoLoad("p1", AutoInputs)
    \/ ManualLoad("p1", ManualInputs(room))
    \/ Step("p1")

SpecSeq == Init /\ [][NextSeq]_vars

-----------------------------------------------------------------------------
(* Interleaved requests: every await is a point where another request may run *)

MaxConcSeats == 2
MaxConcIds == 2
MaxConcBatch == 1

ConcRooms == {r \in Configs : Capacity(r) <= MaxConcSeats}

\* the students the interleaved requests name: two of one class
ConcStudents == {"s1", "s2"}

ConcAutoInputs == UNION {[1..n -> ConcStudents] : n \in 1..MaxConcIds}

ConcManualInputs(r) ==
    UNION {[1..n -> {Tuple(s, c) : s \in ConcStudents, c \in InRangeCoords(r)}] :
              n \in 0..MaxConcBatch}

InitConc ==
    /\ room \in ConcRooms
    /\ store = {}
    /\ before = {}
    /\ Idle
    /\ index = <<>>
    /\ probe = NoProbe

NextConc ==
    \E p \in Procs :
        \/ AutoLoad(p, ConcAutoInputs)
        \/ ManualLoad(p, ConcManualInputs(room))
        \/ Step(p)

SpecConc == InitConc /\ [][NextConc]_vars

\* requests that name one student
RaceAutoInputs == {<<s>> : s \in ConcStudents}

RaceManualInputs(r) == {<<Tuple(s, c)>> : s \in ConcStudents, c \in InRangeCoords(r)}

\* interleaved requests for one student each
NextRace ==
    \E p \in Procs :
        \/ AutoLoad(p, RaceAutoInputs)
        \/ ManualLoad(p, RaceManualInputs(room))
        \/ Step(p)

SpecRace == InitConc /\ [][NextRace]_vars

-----------------------------------------------------------------------------
(* The two availability checks applied to arbitrary position maps *)

AnyClass == ClassIds \cup {NULL}

RECURSIVE SeatSets(_, _)
SeatSets(r, n) ==
    IF n = 0 THEN {{}}
    ELSE SeatSets(r, n - 1)
            \cup {T \cup {c} : T \in SeatSets(r, n - 1), c \in InRangeCoords(r)}

\* position maps with at most MaxOccupants occupied seats of the room
Indexes(r) ==
    UNION {[S -> {[studentId |-> "s1", classId |-> c] : c \in AnyClass}] :
              S \in SeatSets(r, MaxOccupants)}

\* one call of isPositionAvailable, and the manual constraint check of the same
\* position and class, on the same map
CheckPosition ==
    /\ probe = NoProbe
    /\ \E c \in InRangeCoords(room), classId \in AnyClass :
        /\ probe' = [row |-> c[1], column |-> c[2], benchPosition |-> c[3],
                     classId |-> classId,
                     auto |-> IsPositionAvailable(room, index, c[1], c[2], c[3], classId),
                     manual |-> ManualViolation(room, index, c[1], c[2], c[3], classId)]
        /\ UNCHANGED <<room, store, before, pc, kind, req, calls, ids, plan, resp,
                       index, cache, seen, elsewhere, bookings>>

MaxPredSeats == 12

\* the rooms whose seats are checked one by one
PredRooms == {r \in Configs : Capacity(r) <= MaxPredSeats}

InitPred ==
    /\ room \in PredRooms
    /\ index \in Indexes(room)
    /\ probe = NoProbe
    /\ store = {}
    /\ before = {}
    /\ Idle

NextPred == CheckPosition

SpecPred == InitPred /\ [][NextPred]_vars

-----------------------------------------------------------------------------
(* The create request: JSON body values and the conversions applied to them *)

\* a JavaScript number: NaN, or an integer
NaN == [nan |-> TRUE, v |-> 0]

Number(n) == [nan |-> FALSE, v |-> n]

\* body fields: absent, a JSON number, or a JSON string made of the decimal
\* digits of n, followed by letters when tail is set ("20", "20abc")
Undefined == [type |-> "undefined", n |-> 0, tail |-> FALSE]

Num(n) == [type |-> "number", n |-> n, tail |-> FALSE]

Str(n, tail) == [type |-> "string", n |-> n, tail |-> tail]

\* !value is false
Truthy(value) ==
    IF value.type = "undefined" THEN FALSE
    ELSE IF value.type = "number" THEN value.n # 0
    ELSE TRUE

\* the conversion the operators < and * apply to an operand
ToNumber(value) ==
    IF value.type = "undefined" THEN NaN
    ELSE IF value.type = "string" /\ value.tail THEN NaN
    ELSE Number(value.n)

\* parseInt(value): the leading decimal digits of the text of the value
ParseInt(value) ==
    IF value.type = "undefined" THEN NaN ELSE Number(value.n)

\* a < b and a > b are false when an operand is NaN
Less(a, b) == ~a.nan /\ ~b.nan /\ a.v < b.v

Greater(a, b) == ~a.nan /\ ~b.nan /\ a.v > b.v

Times(a, b) == IF a.nan \/ b.nan THEN NaN ELSE Number(a.v * b.v)

\* studentsPerBench === 2 ? 2 : 1
StudentsPerBenchValue(studentsPerBench) == IF studentsPerBench = Num(2) THEN 2 ELSE 1

TotalCapacity(body) ==
    Times(Times(ToNumber(body.rows), ToNumber(body.columns)),
          Number(StudentsPerBenchValue(body.studentsPerBench)))

\* (mutant) the validation without the capacity test
CreateValidationNoCeiling(body) ==
    IF body.roomName = "" \/ ~Truthy(body.rows) \/ ~Truthy(body.columns)
    THEN "required"
    ELSE IF Less(ToNumber(body.rows), Number(1)) \/ Less(ToNumber(body.columns), Number(1))
    THEN "atLeast1"
    ELSE IF body.classIds = "unknown" THEN "classesNotFound"
    ELSE "none"

\* the checks before prisma.roomAllocation.create: "none" when all pass
CreateValidation(body) ==
    IF body.roomName = "" \/ ~Truthy(body.rows) \/ ~Truthy(body.columns)
    THEN "required"
    ELSE IF Less(ToNumber(body.rows), Number(1)) \/ Less(ToNumber(body.columns), Number(1))
    THEN "atLeast1"
    ELSE IF Greater(TotalCapacity(body), Number(MaxCapacity)) THEN "capacity"
    ELSE IF body.classIds = "unknown" THEN "classesNotFound"
    ELSE "none"

\* the data handed to prisma.roomAllocation.create
RoomData(body) ==
    [rows |-> ParseInt(body.rows).v, columns |-> ParseInt(body.columns).v,
     studentsPerBench |-> StudentsPerBenchValue(body.studentsPerBench)]

\* the numbers the body fields are made of
FieldNumbers == {-1, 0, 1, 10, 20, 201}

FieldValues ==
    {Undefined} \cup {Num(n) : n \in FieldNumbers}
        \cup {Str(n, tail) : n \in FieldNumbers \ {-1}, tail \in BOOLEAN}

\* request bodies of the create request; classIds stands for no classIds,
\* classIds of the school, and classIds with one the school does not have
CreateInputs ==
    [roomName : {"", "hall"}, rows : FieldValues, columns : FieldValues,
     studentsPerBench : {Undefined, Num(1), Num(2), Num(3), Str(2, FALSE)},
     classIds : {"absent", "known", "unknown"}]

\* no RoomAllocation row yet
NoRoom == [rows |-> 0, columns |-> 0, studentsPerBench |-> 0]

\* create: the checks up to prisma.roomAllocation.create
CreateLoad(p, bodies) ==
    /\ pc[p] = "idle"
    /\ \E body \in bodies :
        /\ kind' = [kind EXCEPT ![p] = "create"]
        /\ req' = [req EXCEPT ![p] = body]
        /\ calls' = [calls EXCEPT ![p] = <<>>]
        /\ IF CreateValidation(body) = "none"
           THEN /\ pc' = [pc EXCEPT ![p] = "validated"]
                /\ resp' = [resp EXCEPT ![p] = NoResp]
           ELSE /\ pc' = [pc EXCEPT ![p] = "done"]
                /\ resp' = [resp EXCEPT ![p] = Failure(400, CreateValidation(body))]
    /\ UNCHANGED <<room, store, before, ids, plan, index, probe, cache, seen,
                   elsewhere, bookings>>

\* prisma.roomAllocation.create({ data: .. })
CreateRoom(p) ==
    /\ pc[p] = "validated" /\ kind[p] = "create"
    /\ \/ /\ room' = RoomData(req[p])
          /\ calls' = [calls EXCEPT ![p] = Append(@, [op |-> "create", count |-> 1])]
          /\ pc' = [pc EXCEPT ![p] = "created"]
          /\ UNCHANGED <<store, before, kind, req, ids, plan, resp, index, probe,
                         cache, seen, elsewhere, bookings>>
       \/ Throw(p)

\* redis.del of the cache key, then the 201 response
CreateFinish(p) ==
    /\ pc[p] = "created" /\ kind[p] = "create"
    /\ \/ /\ pc' = [pc EXCEPT ![p] = "done"]
          /\ calls' = [calls EXCEPT ![p] = Append(@, [op |-> "del", count |-> 1])]
          /\ cache' = Miss
          /\ resp' = [resp EXCEPT ![p] = [NoResp EXCEPT !.status = 201]]
          /\ UNCHANGED <<room, store, before, kind, req, ids, plan, index, probe,
                         seen, elsewhere, bookings>>
       \/ DelThrow(p)

InitCreate ==
    /\ room = NoRoom
    /\ store = {}
    /\ before = {}
    /\ Idle
    /\ index = <<>>
    /\ probe = NoProbe

NextCreate ==
    \/ CreateLoad("p1", CreateInputs)
    \/ CreateRoom("p1")
    \/ CreateFinish("p1")
    \/ Respond("p1")

SpecCreate == InitCreate /\ [][NextCreate]_vars

-----------------------------------------------------------------------------
(* The list request (src/app/api/room-allocation/list/route.ts) and the cache key *)

\* const cached = await redis.get(cacheKey); if (cached) return it
ListGet(p) ==
    /\ pc[p] = "idle"
    /\ kind' = [kind EXCEPT ![p] = "list"]
    /\ calls' = [calls EXCEPT ![p] = <<[op |-> "get", count |-> 1]>>]
    /\ IF cache.hit
       THEN /\ pc' = [pc EXCEPT ![p] = "done"]
            /\ seen' = [seen EXCEPT ![p] = cache.value]
            /\ resp' = [resp EXCEPT ![p] = [NoResp EXCEPT !.status = 200]]
       ELSE /\ pc' = [pc EXCEPT ![p] = "missed"]
            /\ UNCHANGED <<seen, resp>>
    /\ UNCHANGED <<room, store, before, req, ids, plan, index, probe, cache,
                   elsewhere, bookings>>

\* const roomAllocations = await prisma.roomAllocation.findMany(..)
ListFind(p) ==
    /\ pc[p] = "missed" /\ kind[p] = "list"
    /\ seen' = [seen EXCEPT ![p] = store]
    /\ calls' = [calls EXCEPT ![p] = Append(@, [op |-> "findMany", count |-> 1])]
    /\ pc' = [pc EXCEPT ![p] = "found"]
    /\ UNCHANGED <<room, store, before, kind, req, ids, plan, resp, index, probe,
                   cache, elsewhere, bookings>>

\* await redis.set(cacheKey, roomAllocations, { ex: 60 * 5 }), then the response
ListSet(p) ==
    /\ pc[p] = "found" /\ kind[p] = "list"
    /\ cache' = Hit(seen[p])
    /\ calls' = [calls EXCEPT ![p] = Append(@, [op |-> "set", count |-> 1])]
    /\ pc' = [pc EXCEPT ![p] = "done"]
    /\ resp' = [resp EXCEPT ![p] = [NoResp EXCEPT !.status = 200]]
    /\ UNCHANGED <<room, store, before, kind, req, ids, plan, index, probe, seen,
                   elsewhere, bookings>>

\* the catch block: findMany or redis.set rejected
ListThrow(p) ==
    /\ pc[p] \in {"missed", "found"} /\ kind[p] = "list"
    /\ pc' = [pc EXCEPT ![p] = "done"]
    /\ seen' = [seen EXCEPT ![p] = {}]
    /\ resp' = [resp EXCEPT ![p] = Failure(500, "list")]
    /\ UNCHANGED <<room, store, before, kind, req, calls, ids, plan, index, probe,
                   cache, elsewhere, bookings>>

\* the key set with ex: 300 expires
Expire ==
    /\ cache.hit
    /\ cache' = Miss
    /\ UNCHANGED <<room, store, before, pc, kind, req, calls, ids, plan, resp, index,
                   probe, seen, elsewhere, bookings>>

Writer == "p1"

Reader == "p2"

InitCache == InitConc

\* assign requests of one client interleaved with list requests of another
NextCache ==
    \/ AutoLoad(Writer, ConcAutoInputs)
    \/ ManualLoad(Writer, ConcManualInputs(room))
    \/ Step(Writer)
    \/ ListGet(Reader)
    \/ ListFind(Reader)
    \/ ListSet(Reader)
    \/ ListThrow(Reader)
    \/ Respond(Reader)
    \/ Expire

SpecCache == InitCache /\ [][NextCache]_vars

-----------------------------------------------------------------------------
(* The payment verification request of a hostel booking                     *)
(* (src/app/api/hostel/booking/verify/route.ts) on one CotBooking row       *)

\* the booking row: its id, its student and the order created for it
BookingId == "b1"

BookingStudent == "s1"

BookingOrder == "o1"

\* crypto.createHmac("sha256", secret).update(`${order}|${payment}`).digest("hex"):
\* one digest for each text
Hmac(orderId, paymentId) ==
    IF orderId = "o1" /\ paymentId = "pay1" THEN "d1"
    ELSE IF orderId = "o1" THEN "d2"
    ELSE IF paymentId = "pay1" THEN "d3" ELSE "d4"

\* session.user.studentId and the JSON body; "" is a missing field
VerifyInputs ==
    [studentId : {"s1", "s2"}, bookingId : {"b1", ""},
     razorpay_order_id : {"o1", "o2"}, razorpay_payment_id : {"pay1", "pay2"},
     razorpay_signature : {"d1", "d2"}]

VerifyAnswer(p, status, error) ==
    /\ pc' = [pc EXCEPT ![p] = "done"]
    /\ resp' = [resp EXCEPT ![p] = [NoResp EXCEPT !.status = status, !.error = error]]

\* the required-field test and cotBooking.findFirst with paymentStatus "PENDING"
VerifyFind(p, bodies) ==
    /\ pc[p] = "idle"
    /\ \E body \in bodies :
          /\ kind' = [kind EXCEPT ![p] = "verify"]
          /\ req' = [req EXCEPT ![p] = <<body>>]
          /\ calls' = [calls EXCEPT ![p] = <<>>]
          /\ IF \/ body.bookingId = "" \/ body.razorpay_order_id = ""
                \/ body.razorpay_payment_id = "" \/ body.razorpay_signature = ""
             THEN VerifyAnswer(p, 400, "required")
             ELSE IF ~( /\ body.bookingId = BookingId
                        /\ body.studentId = BookingStudent
                        /\ body.razorpay_order_id = BookingOrder
                        /\ cotBooking = "PENDING" )
             THEN VerifyAnswer(p, 404, "notFound")
             ELSE /\ pc' = [pc EXCEPT ![p] = "found"]
                  /\ UNCHANGED resp
    /\ UNCHANGED <<room, store, before, ids, plan, index, probe, cache, seen,
                   elsewhere, bookings>>

\* the signature comparison and cotBooking.update({ where: { id: bookingId } })
VerifyUpdate(p) ==
    /\ pc[p] = "found" /\ kind[p] = "verify"
    /\ calls' = [calls EXCEPT ![p] = Append(@, [op |-> "update", count |-> 1])]
    /\ IF Hmac(req[p][1].razorpay_order_id, req[p][1].razorpay_payment_id)
             # req[p][1].razorpay_signature
       THEN /\ cotBooking' = "FAILED"
            /\ VerifyAnswer(p, 400, "signature")
       ELSE /\ cotBooking' = "PAID"
            /\ pc' = [pc EXCEPT ![p] = "updated"]
            /\ UNCHANGED resp
    /\ UNCHANGED <<room, store, before, kind, req, ids, plan, index, probe, cache,
                   seen, elsewhere, busBookings>>

\* await redis.del(`hostels:..`)
VerifyDelHostels(p) ==
    /\ pc[p] = "updated" /\ kind[p] = "verify"
    /\ calls' = [calls EXCEPT ![p] = Append(@, [op |-> "del", count |-> 1])]
    /\ pc' = [pc EXCEPT ![p] = "invalidated"]
    /\ UNCHANGED <<room, store, before, kind, req, ids, plan, resp, index, probe,
                   cache, seen, elsewhere, bookings>>

\* await redis.del(`cot-bookings:..`), then the 200 response
VerifyDelBookings(p) ==
    /\ pc[p] = "invalidated" /\ kind[p] = "verify"
    /\ calls' = [calls EXCEPT ![p] = Append(@, [op |-> "del", count |-> 1])]
    /\ VerifyAnswer(p, 200, "none")
    /\ UNCHANGED <<room, store, before, kind, req, ids, plan, index, probe,
                   cache, seen, elsewhere, bookings>>

\* the catch block: the update or a redis.del rejected
VerifyThrow(p) ==
    /\ pc[p] \in {"found", "updated", "invalidated"} /\ kind[p] = "verify"
    /\ VerifyAnswer(p, 500, "store")
    /\ UNCHANGED <<room, store, before, kind, req, calls, ids, plan, index, probe,
                   cache, seen, elsewhere, bookings>>

InitVerify == InitConc

\* interleaved verification requests for the booking
NextVerify ==
    \E p \in Procs :
        \/ VerifyFind(p, VerifyInputs)
        \/ VerifyUpdate(p)
        \/ VerifyDelHostels(p)
        \/ VerifyDelBookings(p)
        \/ VerifyThrow(p)
        \/ Respond(p)

SpecVerify == InitVerify /\ [][NextVerify]_vars

-----------------------------------------------------------------------------
(* The bus booking request (src/app/api/bus/booking/route.ts) on one bus    *)

\* bus.totalSeats of the bus
TotalSeats == 2

BusId == "bus1"

RouteId == "rt1"

\* the seatNumber field of the body
SeatValues ==
    {Undefined} \cup {Num(n) : n \in 0..(TotalSeats + 1)}
                \cup {Str(n, tail) : n \in 1..TotalSeats, tail \in BOOLEAN}

\* session.user.studentId and the JSON body; "" is a missing field
BusInputs ==
    [studentId : {"s1", "s2"}, busId : {BusId, "bus2", ""},
     seatNumber : SeatValues, routeId : {RouteId}]

BusAnswer(p, status, error) ==
    /\ pc' = [pc EXCEPT ![p] = "done"]
    /\ resp' = [resp EXCEPT ![p] = [NoResp EXCEPT !.status = status, !.error = error]]

BusNext(p, label) ==
    /\ pc' = [pc EXCEPT ![p] = label]
    /\ UNCHANGED resp

\* the required-field test, bus.findFirst with its routes, and the range test
\* on the seatNumber of the body
BusFind(p, bodies) ==
    /\ pc[p] = "idle"
    /\ \E body \in bodies :
          /\ kind' = [kind EXCEPT ![p] = "bus"]
          /\ req' = [req EXCEPT ![p] = <<body>>]
          /\ calls' = [calls EXCEPT ![p] = <<>>]
          /\ IF body.busId = "" \/ ~Truthy(body.seatNumber) \/ body.routeId = ""
             THEN BusAnswer(p, 400, "required")
             ELSE IF body.busId # BusId THEN BusAnswer(p, 404, "busNotFound")
             ELSE IF body.routeId # RouteId THEN BusAnswer(p, 404, "routeNotFound")
             ELSE IF \/ Less(ToNumber(body.seatNumber), Number(1))
                     \/ Greater(ToNumber(body.seatNumber), Number(TotalSeats))
             THEN BusAnswer(p, 400, "seatRange")
             ELSE BusNext(p, "ranged")
    /\ UNCHANGED <<room, store, before, ids, plan, index, probe, cache, seen,
                   elsewhere, bookings>>

\* busBooking.findFirst({ where: { busId, seatNumber: parseInt(seatNumber) } })
BusSeatCheck(p) ==
    /\ pc[p] = "ranged" /\ kind[p] = "bus"
    /\ IF \E b \in busBookings : Number(b.seatNumber) = ParseInt(req[p][1].seatNumber)
       THEN BusAnswer(p, 400, "seatTaken")
       ELSE BusNext(p, "seatFree")
    /\ UNCHANGED <<room, store, before, kind, req, calls, ids, plan, index, probe,
                   cache, seen, elsewhere, bookings>>

\* busBooking.findFirst({ where: { busId, studentId } })
BusStudentCheck(p) ==
    /\ pc[p] = "seatFree" /\ kind[p] = "bus"
    /\ IF \E b \in busBookings : b.studentId = req[p][1].studentId
       THEN BusAnswer(p, 400, "studentBooked")
       ELSE BusNext(p, "studentFree")
    /\ UNCHANGED <<room, store, before, kind, req, calls, ids, plan, index, probe,
                   cache, seen, elsewhere, bookings>>

\* razorpay.orders.create in its own try block: the order, or the 500 response
BusOrder(p) ==
    /\ pc[p] = "studentFree" /\ kind[p] = "bus"
    /\ BusNext(p, "ordered") \/ BusAnswer(p, 500, "razorpay")
    /\ UNCHANGED <<room, store, before, kind, req, calls, ids, plan, index, probe,
                   cache, seen, elsewhere, bookings>>

\* busBooking.create({ data: { .., seatNumber: parseInt(seatNumber), .. } }): the
\* row gets an id of its own
BusCreate(p) ==
    /\ pc[p] = "ordered" /\ kind[p] = "bus"
    /\ busBookings' = busBookings \cup
                          {[id |-> p, studentId |-> req[p][1].studentId,
                            seatNumber |-> ParseInt(req[p][1].seatNumber).v]}
    /\ calls' = [calls EXCEPT ![p] = Append(@, [op |-> "create", count |-> 1])]
    /\ BusNext(p, "created")
    /\ UNCHANGED <<room, store, before, kind, req, ids, plan, index, probe,
                   cache, seen, elsewhere, cotBooking>>

\* await redis.del(`buses:..`)
BusDelBuses(p) ==
    /\ pc[p] = "created" /\ kind[p] = "bus"
    /\ calls' = [calls EXCEPT ![p] = Append(@, [op |-> "del", count |-> 1])]
    /\ BusNext(p, "invalidated")
    /\ UNCHANGED <<room, store, before, kind, req, ids, plan, index, probe,
                   cache, seen, elsewhere, bookings>>

\* await redis.del(`bus-bookings:..`), then the 201 response
BusDelBookings(p) ==
    /\ pc[p] = "invalidated" /\ kind[p] = "bus"
    /\ calls' = [calls EXCEPT ![p] = Append(@, [op |-> "del", count |-> 1])]
    /\ BusAnswer(p, 201, "none")
    /\ UNCHANGED <<room, store, before, kind, req, ids, plan, index, probe,
                   cache, seen, elsewhere, bookings>>

\* the catch block: a query or a redis.del rejected; code P2002 gives the 400
\* response "This seat is already booked", any other error the 500 response
BusThrow(p) ==
    /\ pc[p] \in {"ranged", "seatFree", "ordered", "created", "invalidated"}
    /\ kind[p] = "bus"
    /\ BusAnswer(p, 400, "P2002") \/ BusAnswer(p, 500, "store")
    /\ UNCHANGED <<room, store, before, kind, req, calls, ids, plan, index, probe,
                   cache, seen, elsewhere, bookings>>

InitBus == InitConc /\ room = [rows |-> 1, columns |-> 1, studentsPerBench |-> 1]

\* interleaved booking requests for the bus
NextBus ==
    \E p \in Procs :
        \/ BusFind(p, BusInputs)
        \/ BusSeatCheck(p)
        \/ BusStudentCheck(p)
        \/ BusOrder(p)
        \/ BusCreate(p)
        \/ BusDelBuses(p)
        \/ BusDelBookings(p)
        \/ BusThrow(p)
        \/ Respond(p)

SpecBus == InitBus /\ [][NextBus]_vars

-----------------------------------------------------------------------------
(* Properties *)

Abs(n) == IF n < 0 THEN 0 - n ELSE n

\* the adjacency of the design: with one student per bench the seats to the
\* left, right, front and back; with two the other seat of the bench and both
\* seats of the benches in the neighbouring columns of the same row
Adjacent(r, a, b) ==
    IF r.studentsPerBench = 1
    THEN /\ a[3] = 1 /\ b[3] = 1
         /\ \/ a[1] = b[1] /\ Abs(a[2] - b[2]) = 1
            \/ a[2] = b[2] /\ Abs(a[1] - b[1]) = 1
    ELSE a # b /\ a[1] = b[1] /\ Abs(a[2] - b[2]) <= 1

Conflict(c, d) == c = d /\ c # NULL

Settled(p) == pc[p] = "idle" \/ (pc[p] = "done" /\ resp[p].status = 200)

ConstraintErrors == {"adjacent", "sameBench", "left", "right"}

ProbeAt == <<probe.row, probe.column, probe.benchPosition>>

\* C1: with requests run one at a time, whenever every request so far has
\* been answered with success, no seat is held by two students and no two
\* adjacent seats are held by students of one non-null class
C1_SafeSeating ==
    (\A p \in Procs : Settled(p)) =>
        /\ \A a, b \in store : a # b => RowKey(a) # RowKey(b)
        /\ \A a, b \in store :
              Adjacent(room, RowKey(a), RowKey(b))
                  => ~Conflict(ClassOf(a.studentId), ClassOf(b.studentId))

\* C2: a manual batch that goes on to the writes names no seat that a student
\* outside the batch held when the request loaded the assignments
C2_ManualRejectsOccupiedSeat ==
    \A p \in Procs :
        (kind[p] = "manual" /\ pc[p] \in {"planned", "deleted", "created"}) =>
            \A i \in 1..Len(plan[p]) :
                ~\E a \in before :
                    RowKey(a) = RowKey(plan[p][i]) /\ a.studentId \notin ids[p]

\* C3: an auto-assign request answered with unassigned students has called
\* neither deleteMany nor createMany, and the store is as the request found it
C3_UnassignedLeavesStore ==
    \A p \in Procs :
        (pc[p] = "done" /\ resp[p].error = "unassigned") =>
            store = before /\ calls[p] = <<>>

\* a request failed for an unassigned student while a requested student
\* keeps the seat it had
C3_Witness ==
    \E p \in Procs :
        /\ pc[p] = "done" /\ resp[p].error = "unassigned"
        /\ \E a \in store : a.studentId \in SeqToSet(req[p])

\* C4: after a request answered with a failure the store is as the request
\* found it
C4_FailureLeavesStore ==
    \A p \in Procs :
        (pc[p] = "done" /\ resp[p].status # 200) => store = before

\* a request that has deleted rows and not yet inserted its new ones
MidReplace(p) ==
    /\ pc[p] = "deleted"
    /\ calls[p][1].count > 0
    /\ Len(plan[p]) > 0

\* C5: no request loads the assignments while another request has deleted
\* the old rows of its students and not yet inserted the new ones
C5_ReplaceIndivisible ==
    [][\A q \in Procs :
          (pc[q] = "idle" /\ pc'[q] # "idle")
              => ~\E p \in Procs \ {q} : MidReplace(p)]_vars

\* C6: on every position map, seat and class, the manual check accepts
\* exactly when isPositionAvailable returns true
C6_SamePredicate ==
    probe # NoProbe => (probe.auto <=> probe.manual = "none")

\* C7: a manual batch is rejected for a conflict only if it conflicts on a
\* position map without the seats the students of the batch held before
C7_ManualExcludesOwnSeats ==
    \A p \in Procs :
        (kind[p] = "manual" /\ pc[p] = "done" /\ resp[p].error \in ConstraintErrors) =>
            LET batch == {req[p][i].studentId : i \in 1..Len(req[p])}
            IN  \E pm \in PositionMaps({a \in before : a.studentId \notin batch}) :
                    CheckConstraints(room, pm, req[p], 1) # "none"

Single(c, classId) == [k \in {c} |-> [studentId |-> "s1", classId |-> classId]]

\* C8: when a seat A is checked for a class against a map whose one occupant,
\* of that class, sits on another seat B, the check is refused exactly when
\* the check of B for the class against a map with A alone occupied by it is
\* refused; so for the auto check and for the manual check
C8_AdjacencySymmetric ==
    \A b \in DOMAIN index :
        ( /\ probe # NoProbe /\ DOMAIN index = {b} /\ b # ProbeAt
          /\ probe.classId # NULL /\ index[b].classId = probe.classId ) =>
            /\ probe.auto <=>
                  IsPositionAvailable(room, Single(ProbeAt, probe.classId),
                                      b[1], b[2], b[3], probe.classId)
            /\ probe.manual = "none" <=>
                  ManualViolation(room, Single(ProbeAt, probe.classId),
                                  b[1], b[2], b[3], probe.classId) = "none"

\* a check on a free seat of the middle column of a two-per-bench room,
\* refused by both paths
C8_Witness ==
    /\ probe # NoProbe
    /\ room.studentsPerBench = 2 /\ room.columns = 3 /\ probe.column = 2
    /\ Cardinality(DOMAIN index) = 1
    /\ ProbeAt \notin DOMAIN index
    /\ ~probe.auto /\ probe.manual # "none"

SameClassNeighbour(classId) ==
    \E b \in DOMAIN index :
        Adjacent(room, ProbeAt, b) /\ Conflict(index[b].classId, classId)

\* C9: a check on a free seat is refused exactly when a seat adjacent to it
\* (by the adjacency of the design) holds a student of the same non-null
\* class; the manual check, which does not look at the seat itself, is
\* refused exactly then on every seat
C9_ConsultsAdjacency ==
    probe # NoProbe =>
        /\ ProbeAt \notin DOMAIN index
              => (probe.auto <=> ~SameClassNeighbour(probe.classId))
        /\ probe.manual = "none" <=> ~SameClassNeighbour(probe.classId)

\* two-per-bench: a student of the class sits in the same column of the other
\* row, and the check passes on both paths
C9_Witness ==
    /\ probe # NoProbe
    /\ room.studentsPerBench = 2 /\ room.rows = 2
    /\ probe.classId # NULL
    /\ \E b \in DOMAIN index :
          /\ b[1] # probe.row /\ b[2] = probe.column
          /\ index[b].classId = probe.classId
    /\ probe.auto /\ probe.manual = "none"

StripNull(pm) == [k \in {x \in DOMAIN pm : pm[x].classId # NULL} |-> pm[k]]

\* C10: a student without a class is refused on no free seat, and the
\* occupants without a class change the answer of no check
C10_NullNeverConflicts ==
    probe # NoProbe =>
        /\ (probe.classId = NULL /\ ProbeAt \notin DOMAIN index) => probe.auto
        /\ probe.classId = NULL => probe.manual = "none"
        /\ ProbeAt \notin DOMAIN index =>
              probe.auto = IsPositionAvailable(room, StripNull(index), probe.row,
                               probe.column, probe.benchPosition, probe.classId)
        /\ probe.manual = ManualViolation(room, StripNull(index), probe.row,
                              probe.column, probe.benchPosition, probe.classId)

\* a student without a class checked on a free seat next to an occupant
\* without a class
C10_Witness ==
    /\ probe # NoProbe
    /\ probe.classId = NULL
    /\ ProbeAt \notin DOMAIN index
    /\ \E b \in DOMAIN index :
          Adjacent(room, ProbeAt, b) /\ index[b].classId = NULL
    /\ probe.auto /\ probe.manual = "none"


Accepted(p) == pc[p] \in {"planned", "deleted", "created"}

TupleCoord(a) == <<a.row, a.column, a.benchPosition>>

\* C11: a manual batch passes the range checks only if every tuple names a
\* row in 1..rows, a column in 1..columns and a benchPosition in
\* 1..studentsPerBench (so not benchPosition 0), and a batch is refused by a
\* range check only if one of its tuples is outside these ranges
C11_RangeCheck ==
    \A p \in Procs :
        kind[p] = "manual" =>
            /\ Accepted(p) =>
                  \A i \in 1..Len(req[p]) : TupleCoord(req[p][i]) \in InRangeCoords(room)
            /\ (pc[p] = "done" /\ resp[p].error \in {"invalidPosition", "invalidBench"}) =>
                  \E i \in 1..Len(req[p]) : TupleCoord(req[p][i]) \notin InRangeCoords(room)

\* C12: an auto-assign request on a room without assignments that goes on to
\* the writes holds the one mapping every run of the same studentIds on that
\* room produces
C12_Deterministic ==
    \A p \in Procs :
        (kind[p] = "auto" /\ pc[p] = "planned" /\ before = {}) =>
            \A out \in AutoOutcomes(room, {}, req[p]) :
                out.status = 200 /\ SeqToSet(out.assignments) = SeqToSet(plan[p])

ScenarioA == [rows |-> 1, columns |-> 3, studentsPerBench |-> 1]

ScenarioAMapping ==
    { Tuple("s1", <<1, 1, 1>>), Tuple("s2", <<1, 3, 1>>), Tuple("s3", <<1, 2, 1>>) }

\* C13: on the empty 1x3 room with one student per bench, auto-assign of
\* s1 (class X), s2 (class X), s3 (class Y) in that order is not answered
\* with unassigned students and persists s1 at (1,1,1), s2 at (1,3,1) and
\* s3 at (1,2,1)
C13_ScenarioA ==
    \A p \in Procs :
        ( /\ room = ScenarioA /\ before = {}
          /\ kind[p] = "auto" /\ req[p] = <<"s1", "s2", "s3">> ) =>
            /\ pc[p] = "done" => resp[p].error # "unassigned"
            /\ pc[p] = "planned" => SeqToSet(plan[p]) = ScenarioAMapping

ScenarioB == [rows |-> 1, columns |-> 2, studentsPerBench |-> 2]

SameBench(a, b) ==
    a.row = b.row /\ a.column = b.column /\ a.benchPosition # b.benchPosition

NeighbouringColumns(a, b) ==
    a.row = b.row /\ Abs(a.column - b.column) = 1

\* C14: in the 1x2 room with two students per bench, the placements of an
\* auto-assign request that goes on to the writes hold no two students of
\* one class on the two seats of a bench or on benches of neighbouring
\* columns
C14_ScenarioB ==
    \A p \in Procs :
        (room = ScenarioB /\ kind[p] = "auto" /\ Accepted(p)) =>
            \A i, j \in 1..Len(plan[p]) :
                (i # j /\ Conflict(ClassOf(plan[p][i].studentId),
                                   ClassOf(plan[p][j].studentId)))
                    => /\ ~SameBench(plan[p][i], plan[p][j])
                       /\ ~NeighbouringColumns(plan[p][i], plan[p][j])

\* two students of different classes placed by one request
C14_Witness ==
    \E p \in Procs :
        /\ room = ScenarioB /\ kind[p] = "auto" /\ Accepted(p)
        /\ Len(plan[p]) = 2

StructuralErrors == {"duplicateStudent", "invalidPosition", "invalidBench", "positionTaken"}

HasDuplicateStudent(assignments) ==
    \E i, j \in 1..Len(assignments) :
        i < j /\ assignments[i].studentId = assignments[j].studentId

\* C15: a manual batch that names a student twice is answered 400 by the
\* validation loop, which runs before the constraint loop, and the request
\* has called neither deleteMany nor createMany
C15_DuplicateStudentRejected ==
    \A p \in Procs :
        (kind[p] = "manual" /\ pc[p] # "idle" /\ HasDuplicateStudent(req[p])) =>
            /\ pc[p] = "done"
            /\ resp[p].status = 400
            /\ resp[p].error \in StructuralErrors
            /\ calls[p] = <<>>
            /\ store = before

\* a batch refused for the student named twice that the constraint loop would
\* have refused as well
C15_Witness ==
    \E p \in Procs :
        /\ kind[p] = "manual" /\ pc[p] = "done"
        /\ HasDuplicateStudent(req[p])
        /\ resp[p].error = "duplicateStudent"
        /\ \A pm \in PositionMaps(before) :
              CheckConstraints(room, pm, req[p], 1) \in ConstraintErrors


\* the capacity of the row a create body asks for
DerivedCapacity(body) == RoomData(body).rows * RoomData(body).columns
                             * RoomData(body).studentsPerBench

\* C16: the RoomAllocation row a create request has persisted has rows >= 1,
\* columns >= 1, studentsPerBench 1 or 2 and a capacity of at most 200, and a
\* request for a capacity above 200 is answered 400 without a create call
C16_CapacityCeiling ==
    /\ room # NoRoom =>
          /\ room.rows >= 1 /\ room.columns >= 1
          /\ room.studentsPerBench \in {1, 2}
          /\ Capacity(room) <= MaxCapacity
    /\ \A p \in Procs :
          ( /\ kind[p] = "create" /\ pc[p] # "idle"
            /\ Truthy(req[p].rows) /\ Truthy(req[p].columns)
            /\ DerivedCapacity(req[p]) > MaxCapacity ) =>
              pc[p] = "done" /\ resp[p].status = 400 /\ calls[p] = <<>>

Writes(p) == SelectSeq(calls[p], LAMBDA c : c.op \in {"deleteMany", "createMany"})

Dels(p) == SelectSeq(calls[p], LAMBDA c : c.op = "del")

\* C18: an auto or manual request answered with success has invalidated the
\* cache key once, after its writes; a request answered with a failure has
\* not invalidated it; and a request whose createMany has returned is
\* answered with success, whatever became of the invalidation
C18_InvalidateOnce ==
    \A p \in Procs :
        (kind[p] \in {"auto", "manual"} /\ pc[p] = "done") =>
            /\ resp[p].status = 200 =>
                  /\ Len(Dels(p)) = 1
                  /\ calls[p][Len(calls[p])].op = "del"
            /\ resp[p].status # 200 => Len(Dels(p)) = 0
            /\ (\E i \in 1..Len(calls[p]) : calls[p][i].op = "createMany")
                  => resp[p].status = 200


Available(r, pm, c, classId) == IsPositionAvailable(r, pm, c[1], c[2], c[3], classId)

\* the map after the first k placements of a batch
RECURSIVE Placed(_, _, _)
Placed(pm, assignments, k) ==
    IF k = 0 THEN pm
    ELSE MapSet(Placed(pm, assignments, k - 1), RowKey(assignments[k]),
                Occupant(assignments[k].studentId))

\* no seat of the room is available to the class on the map
NoneAvailable(r, pm, classId) ==
    \A d \in InRangeCoords(r) : ~Available(r, pm, d, classId)

\* the maps the solver of a request may have started from
StartMaps(p) ==
    {RemoveRequested(pm, before, SeqToSet(req[p])) : pm \in PositionMaps(before)}

Students_(assignments) == {assignments[i].studentId : i \in 1..Len(assignments)}

\* C17: an auto-assign request answered with unassigned students names, as
\* unassigned, requested students for whom no seat of the grid was available
\* at their turn, carries the placements of all the other requested students,
\* each on a seat available at its turn, and has made no write; every other
\* failure response of the auto and the manual request carries no placements
C17_UnassignedResponse ==
    \A p \in Procs :
        (kind[p] \in {"auto", "manual"} /\ pc[p] = "done" /\ resp[p].status # 200) =>
            IF resp[p].error = "unassigned"
            THEN /\ kind[p] = "auto"
                 /\ Len(resp[p].unassigned) > 0
                 /\ SeqToSet(resp[p].unassigned) \cup Students_(resp[p].assignments)
                        = SeqToSet(req[p])
                 /\ SeqToSet(resp[p].unassigned) \cap Students_(resp[p].assignments) = {}
                 /\ Len(resp[p].unassigned) + Len(resp[p].assignments) = Len(req[p])
                 /\ \E pm \in StartMaps(p) :
                       /\ \A i \in 1..Len(resp[p].assignments) :
                             Available(room, Placed(pm, resp[p].assignments, i - 1),
                                       RowKey(resp[p].assignments[i]),
                                       ClassOf(resp[p].assignments[i].studentId))
                       /\ \A u \in SeqToSet(resp[p].unassigned) :
                             \E k \in 0..Len(resp[p].assignments) :
                                 NoneAvailable(room, Placed(pm, resp[p].assignments, k),
                                               ClassOf(u))
                 /\ calls[p] = <<>>
                 /\ store = before
            ELSE resp[p].assignments = <<>> /\ resp[p].unassigned = <<>>

\* a request answered with one student unassigned and another placed
C17_Witness ==
    \E p \in Procs :
        /\ kind[p] = "auto" /\ pc[p] = "done" /\ resp[p].error = "unassigned"
        /\ Len(resp[p].assignments) > 0
        /\ Len(resp[p].unassigned) > 0

SolverRan(p) ==
    /\ kind[p] = "auto"
    /\ pc[p] = "planned" \/ (pc[p] = "done" /\ resp[p].error = "unassigned")

Placements(p) == IF pc[p] = "planned" THEN plan[p] ELSE resp[p].assignments

\* C19: the solver of an auto-assign request runs on the index of the seats
\* held by the students the request does not name: no placement falls on a
\* seat one of them holds, and the result is one the solver gives on the map
\* built from their rows alone
C19_RequestedSeatsRemoved ==
    \A p \in Procs :
        SolverRan(p) =>
            LET others == {a \in before : a.studentId \notin SeqToSet(req[p])}
            IN  /\ \A i \in 1..Len(Placements(p)) :
                      \A a \in others : RowKey(a) # RowKey(Placements(p)[i])
                /\ \E pm \in PositionMaps(others) :
                   \E order \in StudentOrders(SeqToSet(req[p])) :
                      LET out == AutoSolved(room, others, pm, req[p], order)
                      IN  /\ out.assignments = Placements(p)
                          /\ out.unassigned = resp[p].unassigned

\* a precedes b in the scan: row, then column, then benchPosition
ScanBefore(a, b) ==
    \/ a[1] < b[1]
    \/ a[1] = b[1] /\ a[2] < b[2]
    \/ a[1] = b[1] /\ a[2] = b[2] /\ a[3] < b[3]

GroupedInput(studentIds) ==
    LET q == StudentsByClass(StudentRecords(studentIds))
    IN  [i \in 1..Len(q) |-> q[i].id]

\* C21: the placements of an auto-assign request are made in the order of its
\* studentIds grouped by class: groups by first occurrence of the class in
\* the list, the students of a group in the order of the list
C21_GroupingOrder ==
    \A p \in Procs :
        (kind[p] = "auto" /\ pc[p] = "planned") =>
            [i \in 1..Len(plan[p]) |-> plan[p][i].studentId] = GroupedInput(req[p])

\* the range checks as the validator makes them (benchPosition || 1)
OutOfRange(r, a) ==
    \/ a.row < 1 \/ a.row > r.rows \/ a.column < 1 \/ a.column > r.columns
    \/ BenchOr1(a.benchPosition) < 1 \/ BenchOr1(a.benchPosition) > r.studentsPerBench

HasOutOfRange(r, assignments) ==
    \E i \in 1..Len(assignments) : OutOfRange(r, assignments[i])

HasDuplicateCoordinate(assignments) ==
    \E i, j \in 1..Len(assignments) :
        /\ i < j
        /\ assignments[i].row = assignments[j].row
        /\ assignments[i].column = assignments[j].column
        /\ BenchOr1(assignments[i].benchPosition) = BenchOr1(assignments[j].benchPosition)

\* C22: a manual batch with a student named twice and a coordinate out of
\* range or named twice is refused for the student named twice; a batch with
\* a coordinate out of range and a coordinate named twice, and no student
\* named twice, is refused for the range
C22_PhaseOrder ==
    \A p \in Procs :
        (kind[p] = "manual" /\ pc[p] = "done" /\ resp[p].error \in StructuralErrors) =>
            /\ ( /\ HasDuplicateStudent(req[p])
                 /\ HasOutOfRange(room, req[p]) \/ HasDuplicateCoordinate(req[p]) )
                  => resp[p].error = "duplicateStudent"
            /\ ( /\ ~HasDuplicateStudent(req[p])
                 /\ HasOutOfRange(room, req[p]) /\ HasDuplicateCoordinate(req[p]) )
                  => resp[p].error \in {"invalidPosition", "invalidBench"}


\* the rows a request answered with success has reported as persisted
Reported(p) ==
    IF kind[p] = "auto" THEN SeqToSet(resp[p].assignments)
    ELSE SeqToSet(ManualRows(req[p]))

Succeeded(p) == kind[p] \in {"auto", "manual"} /\ pc[p] = "done" /\ resp[p].status = 200

\* two rows of different students of one class on adjacent seats
Clash(a, b) ==
    /\ a.studentId # b.studentId
    /\ Conflict(ClassOf(a.studentId), ClassOf(b.studentId))
    /\ Adjacent(room, RowKey(a), RowKey(b))

\* two rows of different students on one seat
Shared(a, b) == a.studentId # b.studentId /\ RowKey(a) = RowKey(b)

\* no seat is held by two rows
NoSharedSeat(rows) == \A a, b \in rows : RowKey(a) = RowKey(b) => a = b

\* C23: a request that loads a store in which no seat is held twice plans no
\* row that puts a student next to a row of the loaded store (of a student
\* the request does not name) with the same class, unless it is a manual
\* request that also plans a row on the seat of that row; and an auto-assign
\* request plans none on a seat such a row holds: the pair of the two
\* requests enters the store only through a load made before the other
\* request's write
C23_RaceOnly ==
    [][\A p \in Procs :
          (pc[p] = "idle" /\ pc'[p] = "planned" /\ NoSharedSeat(store)) =>
              \A a \in store :
                  \A b \in SeqToSet(plan'[p]) :
                      a.studentId \notin ids'[p] =>
                          IF kind'[p] = "auto"
                          THEN ~Clash(a, b) /\ ~Shared(a, b)
                          ELSE (\A c \in SeqToSet(plan'[p]) : RowKey(c) # RowKey(a))
                                   => ~Clash(a, b)]_vars

\* both requests loaded the empty store, both are answered with success, and
\* the store holds their rows with two students of one class on adjacent seats
C23_Witness ==
    \E p, q \in Procs :
        /\ p # q /\ Succeeded(p) /\ Succeeded(q)
        /\ before = {}
        /\ \E a \in Reported(p) \cap store :
              \E b \in Reported(q) \cap store : Clash(a, b)

\* both answered with success and the store holds one seat twice
C23_SharedSeat ==
    \E p, q \in Procs :
        /\ p # q /\ Succeeded(p) /\ Succeeded(q)
        /\ before = {}
        /\ \E a \in Reported(p) \cap store :
              \E b \in Reported(q) \cap store : Shared(a, b)

\* both answered with success and a row reported by one is not in the store
C23_LostUpdate ==
    \E p, q \in Procs :
        /\ p # q /\ Succeeded(p) /\ Succeeded(q)
        /\ before = {}
        /\ \E a \in Reported(p) : a \notin store


\* the rows seat every student of the set once, on seats of the grid no two of
\* them share and none of the other rows holds, with no student next to a
\* student of its class among the rows and the other rows
CompletePlacement(studentSet, others, rows) ==
    /\ {a.studentId : a \in rows} = studentSet
    /\ \A a \in rows : RowKey(a) \in InRangeCoords(room)
    /\ \A a, b \in rows : (a.studentId = b.studentId \/ RowKey(a) = RowKey(b)) => a = b
    /\ \A a \in rows : \A o \in others : RowKey(a) # RowKey(o)
    /\ \A a \in rows : \A b \in rows \cup others : ~Clash(a, b)

\* the loaded rows of the students the request does not name
OthersLoaded(p) == {a \in before : a.studentId \notin SeqToSet(req[p])}

\* the placements of the set on the grid, one seat for each student
PlacementsOf(studentSet) ==
    {{Tuple(s, f[s]) : s \in studentSet} : f \in [studentSet -> InRangeCoords(room)]}

\* C24: what the solver hands to the writes is a complete conflict-free
\* placement of the requested students (on a loaded store in which no seat
\* is held twice); the solver is sound, and with the witness, not complete:
\* it reports students as unassigned although a complete conflict-free
\* placement exists
C24_SoundPlan ==
    \A p \in Procs :
        (kind[p] = "auto" /\ pc[p] = "planned" /\ NoSharedSeat(before)) =>
            CompletePlacement(SeqToSet(req[p]), OthersLoaded(p), SeqToSet(plan[p]))

\* an auto-assign request is answered with unassigned students while a
\* complete conflict-free placement of its students exists
C24_Witness ==
    \E p \in Procs :
        /\ kind[p] = "auto" /\ pc[p] = "done" /\ resp[p].error = "unassigned"
        /\ NoSharedSeat(before)
        /\ \E rows \in PlacementsOf(SeqToSet(req[p])) :
              CompletePlacement(SeqToSet(req[p]), OthersLoaded(p), rows)


\* the rows of the store that seat the student
SeatsOf(s) == {a \in store : a.studentId = s}

\* the students a request names
Named(p) == IF kind[p] = "auto" THEN SeqToSet(req[p]) ELSE Students_(req[p])

NotNamed(p, rows) == {a \in rows : a.studentId \notin Named(p)}

\* C26: from its load to its answer, with success or with a failure, an auto
\* or manual request leaves the rows of the students it does not name as it
\* loaded them, and no request changes the rows of another room allocation
C26_Frame ==
    /\ elsewhere = OtherRoomRows
    /\ \A p \in Procs :
          kind[p] \in {"auto", "manual"} => NotNamed(p, store) = NotNamed(p, before)

\* a request answered with success has replaced the seat of a student who
\* holds a row in another room allocation, while a student it does not name
\* holds a seat
C26_Witness ==
    \E p \in Procs :
        /\ Succeeded(p)
        /\ NotNamed(p, store) # {}
        /\ \E a \in before : a.studentId \in Named(p) /\ a \notin store
        /\ \E o \in elsewhere : o.studentId \in Named(p)


\* C27: when an auto-assign request has been answered with success, the same
\* request run next on the store it left succeeds whatever the run, with
\* the placements its students hold in that store
C27_RerunIdentical ==
    \A p \in Procs :
        (Succeeded(p) /\ kind[p] = "auto") =>
            \A out \in AutoOutcomes(room, store, req[p]) :
                /\ out.status = 200
                /\ SeqToSet(out.assignments) = {a \in store : a.studentId \in Named(p)}


\* C28: a list request that starts when an assign request has been answered
\* with success, and is answered from the cache, returns the rows of the store
C28_FreshAfterInvalidate ==
    [][\A w, l \in Procs :
          ( /\ Succeeded(w)
            /\ pc[l] = "idle" /\ kind'[l] = "list"
            /\ pc'[l] = "done" /\ resp'[l].status = 200 )
              => seen'[l] = store]_vars


\* C29: a booking whose paymentStatus is PAID stays PAID and one whose
\* paymentStatus is FAILED stays FAILED, whatever the verification requests
\* interleaved
C29_TerminalStatus ==
    [][ /\ cotBooking = "PAID" => cotBooking' = "PAID"
        /\ cotBooking = "FAILED" => cotBooking' = "FAILED" ]_vars


\* C30: no two bookings of the bus hold one seat number, and no student holds
\* two bookings of the bus
C30_NoDoubleBooking ==
    \A a, b \in busBookings :
        a # b => a.seatNumber # b.seatNumber /\ a.studentId # b.studentId

=============================================================================
